---- MODULE Spec2Model ----
(***************************************************************************)
(* HireNetAI answer-processing pipeline.                                   *)
(*                                                                         *)
(* The model follows backend/app: the upload endpoint (routers/upload.py), *)
(* the session endpoints (routers/interview.py, routers/admin.py), the     *)
(* pipeline orchestrator and the session finalizer                         *)
(* (services/video_processor.py) and the scoring engine                    *)
(* (services/scoring_service.py).  Every `await` of a handler is a point   *)
(* where other handlers and background tasks may run, so a handler is one  *)
(* action per stretch of code between two awaits that touch shared state.  *)
(*                                                                         *)
(* Numbers that the code keeps as floats rounded to two decimals are kept  *)
(* here as integers counting hundredths (7.25 is 725).                     *)
(***************************************************************************)
EXTENDS Integers, Sequences, FiniteSets, Bags, TLC

VARIABLES
    sessions,   \* db["sessions"]: session id -> session document
    nextId,     \* next ObjectId insert_one hands out (ids are never reused)
    uploads,    \* upload_answer calls between their find_one and update_one (a bag)
    runs,       \* process_video background tasks, in scheduling order
    fins,       \* finalize_session tasks, in creation order
    files,      \* paths present under settings.upload_path
    resp,       \* the latest HTTP response: the endpoint and its status code
    call        \* the latest call of a function made on its own: name,
                \* arguments and returned value

vars == <<sessions, nextId, uploads, runs, fins, files, resp, call>>

(***************************************************************************)
(* Bounds of the model.                                                    *)
(***************************************************************************)
MaxSessions == 2
MaxUploads == 2
MaxFinalize == 2

\* the slice PairSpec explores: repeated finalization of one session
PairFinalize == 2
PairUploads == 1

\* the pool size a limit on concurrent runs is checked for: fewer slots than
\* MaxUploads, so that more submissions are accepted than the pool has slots
PoolSize == 1

\* the slice of the system the specification Spec explores
CoreSessions == 1
CoreFinalize == 1

Candidates == {"u1", "u2"}
\* the candidates who start sessions
Starters == {"u1"}
Admins == {"adm"}
Users == Candidates \cup Admins

\* question ids as the sequences of characters upload_answer receives
QIds == { <<"q", "1">>, <<"q", "-", "2">> }

SessionIds == 1..MaxSessions

(***************************************************************************)
(* Small helpers.                                                          *)
(***************************************************************************)
Min(a, b) == IF a <= b THEN a ELSE b

Max(a, b) == IF a >= b THEN a ELSE b

\* round(n / d, 2) where n / d is never halfway between two hundredths
\* (ties to even, as for an exact decimal)
RoundHalfEven(n, d) ==
    LET q == n \div d
        r == n % d
    IN  IF 2 * r < d THEN q
        ELSE IF 2 * r > d THEN q + 1
        ELSE IF q % 2 = 0 THEN q ELSE q + 1

\* Python round(x, 2) of the double x nearest to n / d hundredths: to the
\* nearest hundredth; where n / d lies halfway between two hundredths the
\* double lies on one side of the halfway point or the other (hundredths
\* and their halves have no exact double), and up tells which
RoundDouble(n, d, up) ==
    LET q == n \div d
        r == n % d
    IN  IF 2 * r < d THEN q
        ELSE IF 2 * r > d THEN q + 1
        ELSE IF up THEN q + 1 ELSE q

RECURSIVE SumSeq(_)
SumSeq(s) == IF s = <<>> THEN 0 ELSE Head(s) + SumSeq(Tail(s))

\* a Python str known only by what produced it and by its length
Str(id, len) == [id |-> id, len |-> len]

\* the slice forgotten: the whole string
SliceWhole(s, n) == s

\* s[:n]
Slice(s, n) == [id |-> s.id, len |-> Min(s.len, n)]

(***************************************************************************)
(* Data model (models/interview.py).                                       *)
(***************************************************************************)
\* Optional[str] path: None
NoPath == [dir |-> 0, stem |-> <<>>, suffix |-> ""]

\* Optional[str] transcript: None, a text, or the "[ERROR: ...]" marker
NoTranscript == [kind |-> "none", body |-> <<>>, len |-> 0]

Text(chars) == [kind |-> "text", body |-> chars, len |-> Len(chars)]

\* f"[ERROR: {str(exc)[:200]}]": the text kept is the sliced message
ErrorMarker(msg) == [kind |-> "error", body |-> <<msg.id>>, len |-> msg.len]

\* class LLMEvaluation; Optional[LLMEvaluation] is a sequence of 0 or 1
LLMEvaluation(sub, level, overall, verdict, weak) ==
    [clarity_score |-> sub, confidence_score |-> sub, logic_score |-> sub,
     relevance_score |-> sub, communication_level |-> level,
     overall_score |-> overall, final_verdict |-> verdict, weaknesses |-> weak]

\* class Answer with its defaults: the stub upload_answer stores
Answer(question_id, video_path) ==
    [question_id |-> question_id,
     video_path |-> video_path,
     audio_path |-> NoPath,
     transcript |-> NoTranscript,
     pause_count |-> 0,
     hesitation_score |-> 0,
     confidence_index |-> 0,
     nervousness_score |-> 0,
     llm_evaluation |-> <<>>,
     answer_final_score |-> 0,
     processed |-> FALSE]

\* class InterviewSession with its defaults
InterviewSession(candidate_id) ==
    [candidate_id |-> candidate_id,
     answers |-> <<>>,
     final_score |-> 0,
     category |-> "Not Recommended",
     status |-> "in_progress",
     completed_at |-> 0]

(***************************************************************************)
(* Scoring engine (services/scoring_service.py).                           *)
(***************************************************************************)
\* the mapping with Low as the value of an unknown level
_communication_score_from_level_low(level) ==
    CASE level = "High" -> 10
      [] level = "Medium" -> 6
      [] OTHER -> 2

_communication_score_from_level(level) ==
    CASE level = "High" -> 10
      [] level = "Medium" -> 6
      [] level = "Low" -> 2
      [] OTHER -> 5

\* the score cut to two decimals instead of rounded
score_single_answer_cut(confidence_index, hesitation_score, llm_evaluation) ==
    LET llm_score == IF llm_evaluation # <<>>
                     THEN llm_evaluation[1].overall_score ELSE 0
        comm_level == IF llm_evaluation # <<>>
                      THEN llm_evaluation[1].communication_level ELSE "Low"
        comm_score == _communication_score_from_level(comm_level)
        hesitation_inverted == Max(0, 1000 - hesitation_score)
        final5 == llm_score * 200 + confidence_index + comm_score * 100
                  + hesitation_inverted
    IN  Min(final5, 5000) \div 5

\* the hesitation score taken as it is, not inverted
score_single_answer_hesitant(confidence_index, hesitation_score, llm_evaluation) ==
    LET llm_score == IF llm_evaluation # <<>>
                     THEN llm_evaluation[1].overall_score ELSE 0
        comm_level == IF llm_evaluation # <<>>
                      THEN llm_evaluation[1].communication_level ELSE "Low"
        comm_score == _communication_score_from_level(comm_level)
        final5 == llm_score * 200 + confidence_index + comm_score * 100
                  + hesitation_score
    IN  RoundHalfEven(Min(final5, 5000), 5)

\* The four components are fifths of a hundredth before the final rounding:
\* 0.40 * overall, 0.20 * confidence, 0.20 * comm, 0.20 * (10 - hesitation).
score_single_answer(confidence_index, hesitation_score, llm_evaluation) ==
    LET llm_score == IF llm_evaluation # <<>>
                     THEN llm_evaluation[1].overall_score ELSE 0
        comm_level == IF llm_evaluation # <<>>
                      THEN llm_evaluation[1].communication_level ELSE "Low"
        comm_score == _communication_score_from_level(comm_level)
        hesitation_inverted == Max(0, 1000 - hesitation_score)
        final5 == llm_score * 200 + confidence_index + comm_score * 100
                  + hesitation_inverted
    IN  RoundHalfEven(Min(final5, 5000), 5)

\* the bands with exclusive lower bounds
CategoryOfExclusive(final_score) ==
    IF final_score > 800 THEN "Highly Recommended"
    ELSE IF final_score > 600 THEN "Recommended"
    ELSE IF final_score > 400 THEN "Average"
    ELSE "Not Recommended"

CategoryOf(final_score) ==
    IF final_score >= 800 THEN "Highly Recommended"
    ELSE IF final_score >= 600 THEN "Recommended"
    ELSE IF final_score >= 400 THEN "Average"
    ELSE "Not Recommended"

\* the total taken for the mean
aggregate_session_score_total(scores, up) ==
    [final_score |-> SumSeq(scores), category |-> CategoryOf(SumSeq(scores))]

\* scores: the answer_final_score of each answer, in order; up: the side
\* of a halfway point on which the double total / len(answers) lies
aggregate_session_score(scores, up) ==
    IF scores = <<>>
    THEN [final_score |-> 0, category |-> "Not Recommended"]
    ELSE LET final_score == RoundDouble(SumSeq(scores), Len(scores), up)
         IN  [final_score |-> final_score, category |-> CategoryOf(final_score)]

(***************************************************************************)
(* Stage adapters, seen from the orchestrator: what a call may return or   *)
(* raise.  The sets are the outcomes the model draws from.                 *)
(***************************************************************************)
\* len(result.stderr) of a failed ffmpeg
StderrLens == {900}

\* RuntimeError(f"ffmpeg failed: {result.stderr[:500]}")
FfmpegError(stderr_len) ==
    LET sliced == Slice(Str("ffmpeg", stderr_len), 500)
    IN  Str("ffmpeg", 15 + sliced.len)

\* whisperx failing inside _transcribe_sync
WhisperError == Str("whisper", 60)

\* RuntimeError(f"Cannot open video: {video_path}")
EmotionError == Str("cv2", 50)

\* a pymongo error of the final update_one
MongoError == Str("mongo", 240)

\* (full_transcript, len(pauses)) pairs _transcribe_sync returns
WhisperOutcomes ==
    { [transcript |-> <<>>, pauses |-> 0],
      [transcript |-> <<"h", "i">>, pauses |-> 2] }

\* hesitation_score = round(min(len(pauses) * 1.5, 10.0), 2)
HesitationScore(pause_count) == Min(pause_count * 150, 1000)

\* LONG_PAUSE_THRESHOLD = 2.0 seconds, in milliseconds
LONG_PAUSE_THRESHOLD == 2000

\* gap > LONG_PAUSE_THRESHOLD for gap = words[i]["start"] - words[i-1]["end"],
\* a difference of two doubles.  Timestamps are in milliseconds (the code
\* rounds them to 3 decimals).  Timestamps less or more than the threshold
\* apart compare as their decimals do; for timestamps exactly the threshold
\* apart the double difference is 2.0 or the double next to it, and it is
\* above 2.0 for the end times in RoundsOver (5.001 - 3.001 is
\* 2.0000000000000004): those of the word sequences WordsOf builds
RoundsOver == {3001, 7999, 15495, 15498, 15501, 15504}

GapExceeds(end, start) ==
    \/ start - end > LONG_PAUSE_THRESHOLD
    \/ start - end = LONG_PAUSE_THRESHOLD /\ end \in RoundsOver

\* Step 4 of _transcribe_sync, for i from `from` on.  words: the start and
\* end of each word
RECURSIVE PausesFrom(_, _)
PausesFrom(words, from) ==
    IF from > Len(words) THEN <<>>
    ELSE (IF GapExceeds(words[from - 1].end, words[from].start)
          THEN << [after_word |-> from - 1, before_word |-> from,
                   duration |-> words[from].start - words[from - 1].end,
                   at_time |-> words[from - 1].end] >>
          ELSE <<>>) \o PausesFrom(words, from + 1)

\* for i in range(1, len(words)): the pauses list and the hesitation score
DetectPauses(words) ==
    LET pauses == PausesFrom(words, 2)
    IN  [pauses |-> pauses, hesitation_score |-> HesitationScore(Len(pauses))]

\* (confidence_index, nervousness_score) pairs _analyze_frames_sync returns
EmotionOutcomes ==
    { [confidence_index |-> 750, nervousness_score |-> 250] }

Whitespace == {" "}

\* not transcript or not transcript.strip()
IsBlank(chars) == \A i \in 1..Len(chars) : chars[i] \in Whitespace

\* the evaluation a successful LLM reply decodes to
LLMReply == LLMEvaluation(8, "High", 8, "Recommended", <<>>)

\* evaluate_answer's early return for a transcript without speech
NoSpeechEvaluation ==
    LLMEvaluation(0, "Low", 0, "Not Recommended", <<"No spoken content detected">>)

\* evaluate_answer's except branch
FallbackEvaluation == LLMEvaluation(5, "Medium", 5, "Average", <<>>)

\* what becomes of client.chat.completions.create inside evaluate_answer:
\* not reached, answered with an evaluation that decodes, or failed
LLMCall(transcript, llm_ok) ==
    IF IsBlank(transcript) THEN "skipped"
    ELSE IF llm_ok THEN "replied"
    ELSE "failed"

\* evaluate_answer without its early return for a blank transcript
evaluate_answer_unguarded(transcript, llm_ok) ==
    IF llm_ok THEN LLMReply ELSE FallbackEvaluation

\* evaluate_answer with a failed completion scored as zero, not as neutral
evaluate_answer_strict(transcript, llm_ok) ==
    IF IsBlank(transcript) THEN NoSpeechEvaluation
    ELSE IF llm_ok THEN LLMReply
    ELSE LLMEvaluation(0, "Low", 0, "Not Recommended", <<"error">>)

\* llm_ok: whether the chat completion returned and decoded
evaluate_answer(transcript, llm_ok) ==
    IF IsBlank(transcript) THEN NoSpeechEvaluation
    ELSE IF llm_ok THEN LLMReply
    ELSE FallbackEvaluation

(***************************************************************************)
(* Paths (routers/upload.py, services/video_processor.py).                 *)
(***************************************************************************)
AlNum == {"q", "1", "2"}

\* "".join(c for c in question_id if c.isalnum() or c in "-_")
SafeQid(question_id) ==
    SelectSeq(question_id, LAMBDA c : c \in AlNum \cup {"-", "_"})

\* settings.upload_path / session_id / f"{safe_qid}.webm"
VideoPath(session_id, question_id) ==
    [dir |-> session_id, stem |-> SafeQid(question_id), suffix |-> "webm"]

\* Path(video_path).with_suffix(".wav")
AudioPath(video_path) == [video_path EXCEPT !.suffix = "wav"]

(***************************************************************************)
(* MongoDB operations on db["sessions"].                                   *)
(***************************************************************************)
\* find_one({"_id": session_id}) found a document
Found(sid) == sid \in DOMAIN sessions

\* the entry "answers.$" denotes for {"answers.question_id": qid}: the first
\* array element that matches, 0 when none does
FirstMatch(answers, qid) ==
    IF \E i \in 1..Len(answers) : answers[i].question_id = qid
    THEN CHOOSE i \in 1..Len(answers) :
            /\ answers[i].question_id = qid
            /\ \A j \in 1..(i - 1) : answers[j].question_id # qid
    ELSE 0

\* "answers.0" written for "answers.$": the first entry, matched or not
PositionalSetFirst(db, sid, qid, fields) ==
    IF sid \in DOMAIN db /\ FirstMatch(db[sid].answers, qid) # 0
    THEN [db EXCEPT ![sid].answers[1] =
             [f \in DOMAIN @ |-> IF f \in DOMAIN fields THEN fields[f] ELSE @[f]]]
    ELSE db

\* the answer update also refreshing the session's aggregate
PositionalSetRecompute(db, sid, qid, fields) ==
    IF sid \in DOMAIN db /\ FirstMatch(db[sid].answers, qid) # 0
    THEN LET i == FirstMatch(db[sid].answers, qid)
             written == [db EXCEPT ![sid].answers[i] =
                 [f \in DOMAIN @ |-> IF f \in DOMAIN fields THEN fields[f] ELSE @[f]]]
             agg == aggregate_session_score(
                        [k \in 1..Len(written[sid].answers) |->
                            written[sid].answers[k].answer_final_score], FALSE)
         IN  [written EXCEPT ![sid].final_score = agg.final_score,
                             ![sid].category = agg.category]
    ELSE db

\* the answer update done with upsert=True: a document is inserted when
\* none matches
PositionalSetUpsert(db, sid, qid, fields) ==
    IF sid \in DOMAIN db /\ FirstMatch(db[sid].answers, qid) # 0
    THEN LET i == FirstMatch(db[sid].answers, qid)
         IN  [db EXCEPT ![sid].answers[i] =
                 [f \in DOMAIN @ |-> IF f \in DOMAIN fields THEN fields[f] ELSE @[f]]]
    ELSE IF sid \in DOMAIN db THEN db
    ELSE (sid :> InterviewSession("")) @@ db

\* update_one({"_id": sid, "answers.question_id": qid}, {"$set": fields})
\* with the keys of fields read as "answers.$.<key>"
PositionalSet(db, sid, qid, fields) ==
    IF sid \in DOMAIN db /\ FirstMatch(db[sid].answers, qid) # 0
    THEN LET i == FirstMatch(db[sid].answers, qid)
         IN  [db EXCEPT ![sid].answers[i] =
                 [f \in DOMAIN @ |-> IF f \in DOMAIN fields THEN fields[f] ELSE @[f]]]
    ELSE db

\* the stub appended with the status left as it is
PushAnswerOnly(db, sid, answer, status) ==
    IF sid \in DOMAIN db
    THEN [db EXCEPT ![sid].answers = Append(@, answer)]
    ELSE db

\* the stub put in front of the list instead of behind it
PushAnswerFront(db, sid, answer, status) ==
    IF sid \in DOMAIN db
    THEN [db EXCEPT ![sid].answers = <<answer>> \o @, ![sid].status = status]
    ELSE db

\* update_one({"_id": sid}, {"$push": {"answers": answer}, "$set": {"status": status}})
PushAnswer(db, sid, answer, status) ==
    IF sid \in DOMAIN db
    THEN [db EXCEPT ![sid].answers = Append(@, answer), ![sid].status = status]
    ELSE db

\* the update done with upsert=True
SetSessionFieldsUpsert(db, sid, fields) ==
    IF sid \in DOMAIN db
    THEN [db EXCEPT ![sid] =
             [f \in DOMAIN @ |-> IF f \in DOMAIN fields THEN fields[f] ELSE @[f]]]
    ELSE (sid :> [f \in DOMAIN InterviewSession("") |->
                     IF f \in DOMAIN fields THEN fields[f]
                     ELSE InterviewSession("")[f]]) @@ db

\* update_one({"_id": sid}, {"$set": fields}) on session-level fields
SetSessionFields(db, sid, fields) ==
    IF sid \in DOMAIN db
    THEN [db EXCEPT ![sid] =
             [f \in DOMAIN @ |-> IF f \in DOMAIN fields THEN fields[f] ELSE @[f]]]
    ELSE db

\* delete_one({"_id": sid})
DeleteOne(db, sid) == [x \in DOMAIN db \ {sid} |-> db[x]]

\* no function has been called on its own
NoCall == [fn |-> "", args |-> [none |-> TRUE], result |-> [none |-> TRUE]]

\* what a client receives: the endpoint that answered and the status code
Response(op, code) == [op |-> op, code |-> code]

(***************************************************************************)
(* Initial state: an empty sessions collection and no request in flight.   *)
(***************************************************************************)
Init ==
    /\ sessions = <<>>
    /\ nextId = 1
    /\ uploads = EmptyBag
    /\ runs = <<>>
    /\ fins = <<>>
    /\ files = {}
    /\ resp = Response("", 0)
    /\ call = NoCall

(***************************************************************************)
(* routers/interview.py                                                    *)
(***************************************************************************)
\* POST /interview/session/start
start_session(user) ==
    /\ nextId <= MaxSessions
    /\ sessions' = (nextId :> InterviewSession(user)) @@ sessions
    /\ nextId' = nextId + 1
    /\ resp' = Response("start_session", 201)
    /\ UNCHANGED <<call, uploads, runs, fins, files>>

\* POST /interview/session/{session_id}/complete
complete_session(user, sid) ==
    IF ~Found(sid)
    THEN /\ resp' = Response("complete_session", 404)
         /\ UNCHANGED <<call, sessions, nextId, uploads, runs, fins, files>>
    ELSE IF sessions[sid].candidate_id # user /\ user \notin Admins
    THEN /\ resp' = Response("complete_session", 403)
         /\ UNCHANGED <<call, sessions, nextId, uploads, runs, fins, files>>
    ELSE /\ Len(fins) < MaxFinalize
         /\ fins' = Append(fins, [sid |-> sid, pc |-> "find", read |-> <<>>,
                                  agg |-> aggregate_session_score(<<>>, FALSE)])
         /\ resp' = Response("complete_session", 200)
         /\ UNCHANGED <<call, sessions, nextId, uploads, runs, files>>

(***************************************************************************)
(* routers/admin.py                                                        *)
(***************************************************************************)
\* DELETE /admin/session/{session_id}
delete_session(sid) ==
    /\ sessions' = DeleteOne(sessions, sid)
    /\ resp' = Response("delete_session", IF Found(sid) THEN 200 ELSE 404)
    /\ UNCHANGED <<call, nextId, uploads, runs, fins, files>>

(***************************************************************************)
(* routers/upload.py                                                       *)
(***************************************************************************)
\* the upload accepted without the ownership check
upload_answer_find_anyone(user, sid, qid) ==
    IF ~Found(sid)
    THEN /\ resp' = Response("upload_answer", 404)
         /\ UNCHANGED <<call, sessions, nextId, uploads, runs, fins, files>>
    ELSE /\ BagCardinality(uploads) + Len(runs) < MaxUploads
         /\ files' = files \cup {VideoPath(sid, qid)}
         /\ uploads' = uploads (+) SetToBag(
                {[sid |-> sid, qid |-> qid, video_path |-> VideoPath(sid, qid)]})
         /\ UNCHANGED <<call, sessions, nextId, runs, fins, resp>>

\* POST /upload/answer up to the await of update_one: validation, file save
upload_answer_find(user, sid, qid) ==
    IF ~Found(sid)
    THEN /\ resp' = Response("upload_answer", 404)
         /\ UNCHANGED <<call, sessions, nextId, uploads, runs, fins, files>>
    ELSE IF sessions[sid].candidate_id # user
    THEN /\ resp' = Response("upload_answer", 403)
         /\ UNCHANGED <<call, sessions, nextId, uploads, runs, fins, files>>
    ELSE /\ BagCardinality(uploads) + Len(runs) < MaxUploads
         /\ files' = files \cup {VideoPath(sid, qid)}
         /\ uploads' = uploads (+) SetToBag(
                {[sid |-> sid, qid |-> qid, video_path |-> VideoPath(sid, qid)]})
         /\ UNCHANGED <<call, sessions, nextId, runs, fins, resp>>

\* the task background_tasks.add_task(process_video, ...) schedules;
\* entry remembers which array position the stub of this upload took
\* (0 when the update matched no session), failed_at the stage that
\* raised and llm_call what became of the run's LLM request;
\* none of the three is read by the program
NewRun(up, entry) ==
    [sid |-> up.sid, qid |-> up.qid, video_path |-> up.video_path,
     pc |-> "extract", update_fields |-> <<>>, exc |-> Str("", 0),
     failed_at |-> "", llm_call |-> "", entry |-> entry]

\* POST /upload/answer from update_one on: stub, status, background task
upload_answer_update(up) ==
    /\ BagIn(up, uploads)
    /\ sessions' = PushAnswer(sessions, up.sid,
                              Answer(up.qid, up.video_path), "processing")
    /\ runs' = Append(runs, NewRun(up, IF Found(up.sid)
                                       THEN Len(sessions[up.sid].answers) + 1
                                       ELSE 0))
    /\ uploads' = uploads (-) SetToBag({up})
    /\ resp' = Response("upload_answer", 202)
    /\ UNCHANGED <<call, nextId, fins, files>>

\* the poll reporting the newest entry of the question instead of the first
processing_status_last(sid, qid) ==
    IF Found(sid) /\ FirstMatch(sessions[sid].answers, qid) # 0
    THEN [code |-> 200,
          processed |->
             sessions[sid].answers[
                CHOOSE i \in 1..Len(sessions[sid].answers) :
                   /\ sessions[sid].answers[i].question_id = qid
                   /\ \A j \in (i + 1)..Len(sessions[sid].answers) :
                         sessions[sid].answers[j].question_id # qid].processed]
    ELSE [code |-> 404, processed |-> FALSE]

\* GET /upload/status/{session_id}/{question_id}: the processed flag
\* reported, or 404
processing_status(sid, qid) ==
    IF Found(sid) /\ FirstMatch(sessions[sid].answers, qid) # 0
    THEN [code |-> 200,
          processed |-> sessions[sid].answers[FirstMatch(sessions[sid].answers, qid)].processed]
    ELSE [code |-> 404, processed |-> FALSE]

(***************************************************************************)
(* services/video_processor.py: process_video, one action per await.       *)
(***************************************************************************)
RunIds == 1..Len(runs)

\* the run continues at pc with the stage's fields added to update_fields
Advance(r, pc, fields) ==
    runs' = [runs EXCEPT ![r].pc = pc,
                         ![r].update_fields = fields @@ @]

\* a stage that raised is called again
RaiseAndRetry(r, exc) ==
    runs' = [runs EXCEPT ![r].exc = exc, ![r].failed_at = runs[r].pc]

\* a failed extraction is passed over and the run goes on to transcription
RaiseAndGoOn(r, exc) ==
    runs' = [runs EXCEPT
                ![r].pc = IF runs[r].pc = "extract" THEN "transcribe"
                          ELSE "except",
                ![r].exc = exc, ![r].failed_at = runs[r].pc]

\* a stage raised: control passes to the except clause; failed_at remembers
\* the stage
Raise(r, exc) ==
    runs' = [runs EXCEPT ![r].pc = "except", ![r].exc = exc,
                         ![r].failed_at = runs[r].pc]

\* the coroutine returns and its locals are gone
Return(r) ==
    runs' = [runs EXCEPT ![r].pc = "done", ![r].exc = Str("", 0),
                         ![r].update_fields = <<>>, ![r].failed_at = "",
                         ![r].llm_call = ""]

\* Step A: _extract_audio_sync in the executor
process_video_extract(r) ==
    /\ runs[r].pc = "extract"
    /\ \/ /\ Advance(r, "transcribe",
                     "audio_path" :> AudioPath(runs[r].video_path))
          /\ files' = files \cup {AudioPath(runs[r].video_path)}
       \/ /\ \E n \in StderrLens : Raise(r, FfmpegError(n))
          /\ UNCHANGED files
    /\ UNCHANGED <<call, sessions, nextId, uploads, fins, resp>>

\* Step B: whisper_service.transcribe_audio
process_video_transcribe(r) ==
    /\ runs[r].pc = "transcribe"
    /\ \/ \E w \in WhisperOutcomes :
             Advance(r, "emotion",
                     [transcript |-> Text(w.transcript),
                      pause_count |-> w.pauses,
                      hesitation_score |-> HesitationScore(w.pauses)])
       \/ Raise(r, WhisperError)
    /\ UNCHANGED <<call, sessions, nextId, uploads, fins, files, resp>>

\* Step C: emotion_service.analyze_video_emotions
process_video_emotion(r) ==
    /\ runs[r].pc = "emotion"
    /\ \/ \E e \in EmotionOutcomes :
             Advance(r, "llm",
                     [confidence_index |-> e.confidence_index,
                      nervousness_score |-> e.nervousness_score])
       \/ Raise(r, EmotionError)
    /\ UNCHANGED <<call, sessions, nextId, uploads, fins, files, resp>>

\* Steps D and E: llm_service.evaluate_answer returns (it catches its own
\* errors), then the score is computed without a further await
process_video_evaluate(r) ==
    /\ runs[r].pc = "llm"
    /\ \E llm_ok \in BOOLEAN :
          LET uf == runs[r].update_fields
              llm_eval == evaluate_answer(uf.transcript.body, llm_ok)
              answer_score == score_single_answer(uf.confidence_index,
                                                  uf.hesitation_score,
                                                  <<llm_eval>>)
          IN  runs' = [runs EXCEPT
                         ![r].pc = "persist",
                         ![r].llm_call = LLMCall(uf.transcript.body, llm_ok),
                         ![r].update_fields =
                             [llm_evaluation |-> <<llm_eval>>,
                              answer_final_score |-> answer_score,
                              processed |-> TRUE] @@ @]
    /\ UNCHANGED <<call, sessions, nextId, uploads, fins, files, resp>>

\* the one update_one of the success path
process_video_persist(r) ==
    /\ runs[r].pc = "persist"
    /\ \/ /\ sessions' = PositionalSet(sessions, runs[r].sid, runs[r].qid,
                                       runs[r].update_fields)
          /\ Return(r)
       \/ /\ Raise(r, MongoError)
          /\ UNCHANGED sessions
    /\ UNCHANGED <<call, nextId, uploads, fins, files, resp>>

\* the failure path also storing what the stages had produced
ExceptFieldsPartial(run) ==
    [processed |-> TRUE, transcript |-> ErrorMarker(Slice(run.exc, 200))]
        @@ run.update_fields

\* the failure path setting the flag without the marker
ExceptFieldsUnmarked(run) == [processed |-> TRUE]

\* the $set document of the failure path
ExceptFields(run) ==
    [processed |-> TRUE, transcript |-> ErrorMarker(Slice(run.exc, 200))]

\* except Exception as exc: the update_one of the failure path
process_video_except(r) ==
    /\ runs[r].pc = "except"
    /\ sessions' = PositionalSet(sessions, runs[r].sid, runs[r].qid,
                                 ExceptFields(runs[r]))
    /\ Return(r)
    /\ UNCHANGED <<call, nextId, uploads, fins, files, resp>>

(***************************************************************************)
(* services/video_processor.py: finalize_session.                          *)
(***************************************************************************)
FinIds == 1..Len(fins)

\* the aggregate taken over the processed answers only
finalize_session_find_processed(f) ==
    /\ fins[f].pc = "find"
    /\ IF ~Found(fins[f].sid)
       THEN fins' = [fins EXCEPT ![f].pc = "done"]
       ELSE LET raw_answers == SelectSeq(sessions[fins[f].sid].answers,
                                         LAMBDA a : a.processed)
                scores == [i \in 1..Len(raw_answers) |->
                              raw_answers[i].answer_final_score]
            IN  \E up \in BOOLEAN :
                   fins' = [fins EXCEPT
                               ![f].pc = "update",
                               ![f].read = scores,
                               ![f].agg = aggregate_session_score(scores, up)]
    /\ UNCHANGED <<call, sessions, nextId, uploads, runs, files, resp>>

\* find_one, the rebuilt Answer list and aggregate_session_score
finalize_session_find(f) ==
    /\ fins[f].pc = "find"
    /\ IF ~Found(fins[f].sid)
       THEN fins' = [fins EXCEPT ![f].pc = "done"]   \* if not doc: return
       ELSE LET raw_answers == sessions[fins[f].sid].answers
                scores == [i \in 1..Len(raw_answers) |->
                              raw_answers[i].answer_final_score]
            IN  \E up \in BOOLEAN :
                   fins' = [fins EXCEPT
                               ![f].pc = "update",
                               ![f].read = scores,
                               ![f].agg = aggregate_session_score(scores, up)]
    /\ UNCHANGED <<call, sessions, nextId, uploads, runs, files, resp>>

\* the aggregate added to the stored score ($inc) instead of replacing it
finalize_session_update_inc(f) ==
    /\ fins[f].pc = "update"
    /\ sessions' = SetSessionFields(sessions, fins[f].sid,
                        [final_score |-> (IF Found(fins[f].sid)
                                          THEN sessions[fins[f].sid].final_score
                                          ELSE 0) + fins[f].agg.final_score,
                         category |-> fins[f].agg.category,
                         status |-> "completed",
                         completed_at |-> f])
    /\ fins' = [fins EXCEPT ![f].pc = "done", ![f].read = <<>>,
                             ![f].agg = aggregate_session_score(<<>>, FALSE)]
    /\ UNCHANGED <<call, nextId, uploads, runs, files, resp>>

\* update_one setting final_score, category, status and completed_at;
\* datetime.utcnow() is told apart by the task that took it
finalize_session_update(f) ==
    /\ fins[f].pc = "update"
    /\ sessions' = SetSessionFields(sessions, fins[f].sid,
                                    [final_score |-> fins[f].agg.final_score,
                                     category |-> fins[f].agg.category,
                                     status |-> "completed",
                                     completed_at |-> f])
    /\ fins' = [fins EXCEPT ![f].pc = "done", ![f].read = <<>>,
                             ![f].agg = aggregate_session_score(<<>>, FALSE)]
    /\ UNCHANGED <<call, nextId, uploads, runs, files, resp>>

(***************************************************************************)
(* The system.                                                             *)
(***************************************************************************)
\* at most CoreSessions sessions started, CoreFinalize finalizations asked for
Core == nextId <= CoreSessions + 1 /\ Len(fins) <= CoreFinalize

Next ==
    \/ \E u \in Starters : start_session(u) /\ Core'
    \/ \E u \in Users, s \in SessionIds : complete_session(u, s) /\ Core'
    \/ \E s \in SessionIds : delete_session(s)
    \/ \E u \in Users, s \in SessionIds, q \in QIds : upload_answer_find(u, s, q)
    \/ \E up \in BagToSet(uploads) : upload_answer_update(up)
    \/ \E r \in RunIds : process_video_extract(r)
    \/ \E r \in RunIds : process_video_transcribe(r)
    \/ \E r \in RunIds : process_video_emotion(r)
    \/ \E r \in RunIds : process_video_evaluate(r)
    \/ \E r \in RunIds : process_video_persist(r)
    \/ \E r \in RunIds : process_video_except(r)
    \/ \E f \in FinIds : finalize_session_find(f)
    \/ \E f \in FinIds : finalize_session_update(f)

Spec == Init /\ [][Next]_vars

\* every background task that can take a step eventually takes it: the
\* event loop runs each scheduled coroutine, and each awaited call returns
\* or raises
Background ==
    \/ \E up \in BagToSet(uploads) : upload_answer_update(up)
    \/ \E r \in RunIds :
          \/ process_video_extract(r)
          \/ process_video_transcribe(r)
          \/ process_video_emotion(r)
          \/ process_video_evaluate(r)
          \/ process_video_persist(r)
          \/ process_video_except(r)
    \/ \E f \in FinIds : finalize_session_find(f) \/ finalize_session_update(f)

LiveSpec == Spec /\ WF_vars(Background)

\* one session, at most PairFinalize finalizations and PairUploads uploads
Pair ==
    /\ nextId <= CoreSessions + 1
    /\ Len(fins) <= PairFinalize
    /\ BagCardinality(uploads) + Len(runs) <= PairUploads

PairNext ==
    \/ \E u \in Starters : start_session(u) /\ Pair'
    \/ \E u \in Users, s \in SessionIds : complete_session(u, s) /\ Pair'
    \/ \E s \in SessionIds : delete_session(s)
    \/ \E u \in Users, s \in SessionIds, q \in QIds :
          upload_answer_find(u, s, q) /\ Pair'
    \/ \E up \in BagToSet(uploads) : upload_answer_update(up)
    \/ \E r \in RunIds : process_video_extract(r)
    \/ \E r \in RunIds : process_video_transcribe(r)
    \/ \E r \in RunIds : process_video_emotion(r)
    \/ \E r \in RunIds : process_video_evaluate(r)
    \/ \E r \in RunIds : process_video_persist(r)
    \/ \E r \in RunIds : process_video_except(r)
    \/ \E f \in FinIds : finalize_session_find(f)
    \/ \E f \in FinIds : finalize_session_update(f)

PairSpec == Init /\ [][PairNext]_vars

\* up to MaxSessions sessions, at most CoreFinalize finalizations and
\* PairUploads uploads
Duo ==
    /\ Len(fins) <= CoreFinalize
    /\ BagCardinality(uploads) + Len(runs) <= PairUploads

DuoNext ==
    \/ \E u \in Starters : start_session(u)
    \/ \E u \in Users, s \in SessionIds : complete_session(u, s) /\ Duo'
    \/ \E s \in SessionIds : delete_session(s)
    \/ \E u \in Users, s \in SessionIds, q \in QIds :
          upload_answer_find(u, s, q) /\ Duo'
    \/ \E up \in BagToSet(uploads) : upload_answer_update(up)
    \/ \E r \in RunIds : process_video_extract(r)
    \/ \E r \in RunIds : process_video_transcribe(r)
    \/ \E r \in RunIds : process_video_emotion(r)
    \/ \E r \in RunIds : process_video_evaluate(r)
    \/ \E r \in RunIds : process_video_persist(r)
    \/ \E r \in RunIds : process_video_except(r)
    \/ \E f \in FinIds : finalize_session_find(f)
    \/ \E f \in FinIds : finalize_session_update(f)

DuoSpec == Init /\ [][DuoNext]_vars

\* an external stage call (ffmpeg, WhisperX, OpenCV/DeepFace) that never
\* returns: the await on it in process_video never completes, and no
\* statement of process_video bounds the wait, so the coroutine has no
\* further step
stage_call_hangs(r) ==
    /\ runs[r].pc \in {"extract", "transcribe", "emotion"}
    /\ runs' = [runs EXCEPT ![r].pc = "hung"]
    /\ UNCHANGED <<call, sessions, nextId, uploads, fins, files, resp>>

HangNext ==
    \/ PairNext
    \/ \E r \in RunIds : stage_call_hangs(r)

\* the slice Pair with stage calls that may never return; every task that
\* can take a step eventually takes it
HangSpec == Init /\ [][HangNext]_vars /\ WF_vars(Background)

(***************************************************************************)
(* The functions of the scoring engine and of pause detection called on    *)
(* their own, over the inputs below.                                       *)
(***************************************************************************)
\* overall_score is an int the LLM reply supplies; 11 and 12 lie beyond the
\* scale the prompt asks for
OverallScores == 0..12

\* confidence_index values in hundredths
ConfidenceValues == {0, 1, 2, 3, 4, 250, 333, 750, 999, 1000}

\* hesitation_score values in hundredths
HesitationValues == {0, 1, 2, 3, 150, 300, 450, 999, 1000, 1050}

\* communication_level values; "Fluent" is outside the mapping
Levels == {"High", "Medium", "Low", "Fluent"}

\* answer_final_score values in hundredths
ScoreValues == {0, 1, 300, 399, 400, 500, 599, 600, 700, 799, 800, 801, 900, 1000}

MaxAnswers == 3

\* gaps between consecutive words, in milliseconds
Gaps == {1999, 2000, 2001}

MaxWords == 8

\* the sequences over S of length at most n
SeqsUpTo(S, n) == UNION { [1..k -> S] : k \in 0..n }

\* words[0] starts at `at`; every word lasts half a second and every later
\* word starts gaps[i] after the end of the one before
RECURSIVE WordsOf(_, _)
WordsOf(gaps, at) ==
    IF gaps = <<>> THEN << [start |-> at, end |-> at + 500] >>
    ELSE << [start |-> at, end |-> at + 500] >>
            \o WordsOf(Tail(gaps), at + 500 + Head(gaps))

\* ---- emotion analysis (services/emotion_service.py) ----

MaxFrames == 3

\* frame rates the container declares, in hundredths of a frame per second;
\* 0 is what cap.get returns when the rate is unknown
FpsValues == {0, 50, 100, 250}

Emotions == {"happy", "sad", "surprise"}

\* DeepFace.analyze raised on the frame
NoFace == [analysed |-> FALSE]

\* DeepFace.analyze returned these scores for the frame
Scores(happy, sad, surprise) ==
    [analysed |-> TRUE,
     emotion |-> [happy |-> happy, sad |-> sad, surprise |-> surprise]]

FrameResults ==
    {NoFace, Scores(0, 0, 0), Scores(100, 0, 0), Scores(0, 100, 0),
     Scores(40, 30, 30), Scores(60, 0, 40)}

\* the exception a call ended with
Raised(exc) == [raised |-> exc]

\* d.get(key, 0)
Get(d, key) == IF key \in DOMAIN d THEN d[key] ELSE 0

\* sum(d.values()) over the keys
RECURSIVE SumValues(_, _)
SumValues(d, keys) ==
    IF keys = {} THEN 0
    ELSE LET k == CHOOSE k \in keys : TRUE
         IN  d[k] + SumValues(d, keys \ {k})

\* the scores appended to frame_emotions by the loop: the frames whose index
\* is a multiple of frame_interval and which DeepFace analysed
RECURSIVE SampledFrames(_, _, _)
SampledFrames(frames, frame_index, frame_interval) ==
    IF frames = <<>> THEN <<>>
    ELSE (IF frame_index % frame_interval = 0 /\ Head(frames).analysed
          THEN << Head(frames).emotion >> ELSE <<>>)
         \o SampledFrames(Tail(frames), frame_index + 1, frame_interval)

\* emotion_totals[emo] after the loop
RECURSIVE EmotionTotal(_, _)
EmotionTotal(frame_emotions, emo) ==
    IF frame_emotions = <<>> THEN 0
    ELSE Head(frame_emotions)[emo] + EmotionTotal(Tail(frame_emotions), emo)

\* round(score / total_weight * 100, 2) per emotion, in hundredths of a
\* percent
Distribution(emotion_totals, total_weight) ==
    [emo \in DOMAIN emotion_totals |->
        RoundHalfEven(emotion_totals[emo] * 10000, total_weight)]

\* the loop of _analyze_frames_sync never reaching its end on these frames
\* (frame_index % frame_interval with frame_interval = int(fps) = 0)
LoopRaises(fps, frames) ==
    LET frame_interval == (IF fps = 0 THEN 2500 ELSE fps) \div 100
    IN  frames # <<>> /\ frame_interval = 0

\* the function on a stream that opens or not, declares fps and delivers
\* frames; confidence_index and nervousness_score in hundredths
_analyze_frames_sync(opened, fps, frames) ==
    IF ~opened THEN Raised("RuntimeError")
    ELSE IF LoopRaises(fps, frames) THEN Raised("ZeroDivisionError")
    ELSE LET frame_interval == (IF fps = 0 THEN 2500 ELSE fps) \div 100
             frame_emotions ==
                IF frames = <<>> THEN <<>>
                ELSE SampledFrames(frames, 0, frame_interval)
             emotion_totals ==
                [emo \in Emotions |-> EmotionTotal(frame_emotions, emo)]
             total_weight == SumValues(emotion_totals, Emotions)
         IN  IF frame_emotions = <<>>
             THEN [frame_emotions |-> 0, emotion_distribution |-> <<>>,
                   confidence_index |-> 0, nervousness_score |-> 0]
             ELSE IF total_weight = 0 THEN Raised("ZeroDivisionError")
             ELSE LET distribution ==
                         Distribution(emotion_totals, total_weight)
                      positive == Get(distribution, "happy")
                                  + Get(distribution, "neutral")
                      negative == Get(distribution, "fear")
                                  + Get(distribution, "sad")
                                  + Get(distribution, "angry")
                  IN  [frame_emotions |-> Len(frame_emotions),
                       emotion_distribution |-> distribution,
                       confidence_index |->
                          RoundHalfEven(Min(positive, 10000), 10),
                       nervousness_score |->
                          RoundHalfEven(Min(negative, 10000), 10)]

\* a call that has not returned yet
Pending == [pending |-> TRUE]

Calling(fn, args) == [fn |-> fn, args |-> args, result |-> Pending]

\* the calls made: each function on each of its inputs
Calls ==
    { Calling("score_single_answer",
              [confidence_index |-> c, hesitation_score |-> h,
               llm_evaluation |-> e]) :
         c \in ConfidenceValues, h \in HesitationValues,
         e \in {<<>>} \cup { <<LLMEvaluation(0, l, o, "", <<>>)>> :
                                 l \in Levels, o \in OverallScores } }
    \cup { Calling("aggregate_session_score", [scores |-> scores]) :
              scores \in SeqsUpTo(ScoreValues, MaxAnswers) }
    \cup { Calling("_transcribe_sync", [words |-> words]) :
              words \in {<<>>} \cup { WordsOf(gaps, 0) :
                                         gaps \in SeqsUpTo(Gaps, MaxWords - 1) } }
    \cup { Calling("_analyze_frames_sync",
                    [opened |-> opened, fps |-> fps, frames |-> frames]) :
              opened \in BOOLEAN, fps \in FpsValues,
              frames \in SeqsUpTo(FrameResults, MaxFrames) }

FnInit ==
    /\ sessions = <<>>
    /\ nextId = 1
    /\ uploads = EmptyBag
    /\ runs = <<>>
    /\ fins = <<>>
    /\ files = {}
    /\ resp = Response("", 0)
    /\ call \in Calls

score_single_answer_call ==
    /\ call.fn = "score_single_answer"
    /\ call.result = Pending
    /\ call' = [call EXCEPT !.result =
                   [value |-> score_single_answer(call.args.confidence_index,
                                                  call.args.hesitation_score,
                                                  call.args.llm_evaluation)]]
    /\ UNCHANGED <<sessions, nextId, uploads, runs, fins, files, resp>>

aggregate_session_score_call ==
    /\ call.fn = "aggregate_session_score"
    /\ call.result = Pending
    /\ \E up \in BOOLEAN :
          call' = [call EXCEPT !.result =
                      aggregate_session_score(call.args.scores, up)]
    /\ UNCHANGED <<sessions, nextId, uploads, runs, fins, files, resp>>

\* Step 4 of _transcribe_sync on the words whisperx.align returned
DetectPauses_call ==
    /\ call.fn = "_transcribe_sync"
    /\ call.result = Pending
    /\ call' = [call EXCEPT !.result = DetectPauses(call.args.words)]
    /\ UNCHANGED <<sessions, nextId, uploads, runs, fins, files, resp>>

\* analyze_video_emotions: _analyze_frames_sync in the executor
analyze_video_emotions_call ==
    /\ call.fn = "_analyze_frames_sync"
    /\ call.result = Pending
    /\ call' = [call EXCEPT !.result =
                   _analyze_frames_sync(call.args.opened, call.args.fps,
                                        call.args.frames)]
    /\ UNCHANGED <<sessions, nextId, uploads, runs, fins, files, resp>>

FnNext ==
    \/ score_single_answer_call
    \/ aggregate_session_score_call
    \/ DetectPauses_call
    \/ analyze_video_emotions_call

FnSpec == FnInit /\ [][FnNext]_vars

(***************************************************************************)
(* Properties.                                                             *)
(***************************************************************************)
AnswersOf(s) == sessions[s].answers

HasEntry(s, i) == Found(s) /\ i \in 1..Len(AnswersOf(s))

StatusRank(status) ==
    CASE status = "in_progress" -> 0
      [] status = "processing" -> 1
      [] status = "completed" -> 2

\* the run took its last step: the write of the success or the failure path
Completes(r) ==
    /\ r \in RunIds
    /\ runs[r].pc \in {"persist", "except"}
    /\ runs'[r].pc = "done"

\* C1: no session holds two answer entries with the same question_id, and
\* no two process_video runs are scheduled for the same (session_id,
\* question_id).
C1_NoDuplicateAnswer ==
    /\ \A s \in DOMAIN sessions : \A i, j \in 1..Len(AnswersOf(s)) :
          i # j => AnswersOf(s)[i].question_id # AnswersOf(s)[j].question_id
    /\ \A r1, r2 \in RunIds :
          r1 # r2 => <<runs[r1].sid, runs[r1].qid>> # <<runs[r2].sid, runs[r2].qid>>

\* C2: no step moves a session's status backward along
\* in_progress -> processing -> completed.
C2_StatusMonotonic ==
    [][\A s \in DOMAIN sessions \cap DOMAIN sessions' :
          StatusRank(sessions'[s].status) >= StatusRank(sessions[s].status)]_vars

\* C3: every answer stub appended by upload_answer eventually has
\* processed = TRUE (or its session is deleted), under fair scheduling of
\* the background tasks.
C3_EveryStubProcessed ==
    \A s \in SessionIds : \A i \in 1..MaxUploads :
       (HasEntry(s, i) /\ ~AnswersOf(s)[i].processed)
          ~> (~Found(s) \/ (HasEntry(s, i) /\ AnswersOf(s)[i].processed))

\* the $set document of the write with which run r completes
WrittenBy(r) ==
    IF runs[r].pc = "persist" THEN runs[r].update_fields ELSE ExceptFields(runs[r])

ScoresOf(answers) == [i \in 1..Len(answers) |-> answers[i].answer_final_score]

C4_NoBleed ==
    \A r \in RunIds :
       (Completes(r) /\ Found(runs[r].sid)) =>
          LET s == runs[r].sid
              before == sessions[s].answers
              after == sessions'[s].answers
          IN  /\ Len(after) = Len(before)
              /\ \A i \in 1..Len(before) :
                    before[i].question_id # runs[r].qid => after[i] = before[i]
              /\ \E i \in 1..Len(before) :
                    /\ before[i].question_id = runs[r].qid
                    /\ \A k \in DOMAIN WrittenBy(r) : after[i][k] = WrittenBy(r)[k]

C4_OwnFields ==
    /\ \A s \in DOMAIN sessions : \A i \in 1..Len(AnswersOf(s)) :
          LET e == AnswersOf(s)[i]
          IN  /\ e.audio_path # NoPath
                    => e.audio_path = AudioPath(VideoPath(s, e.question_id))
              /\ e.processed
                    => \E r \in RunIds : /\ runs[r].sid = s
                                         /\ runs[r].qid = e.question_id
                                         /\ runs[r].pc = "done"
    /\ \A r \in RunIds :
          (runs[r].pc = "done" /\ Found(runs[r].sid)) =>
             LET i == FirstMatch(AnswersOf(runs[r].sid), runs[r].qid)
             IN  i # 0 /\ AnswersOf(runs[r].sid)[i].processed

\* the answer of session s that (s, q) identifies is processed
AnswerProcessed(s, q) ==
    /\ Found(s)
    /\ FirstMatch(AnswersOf(s), q) # 0
    /\ AnswersOf(s)[FirstMatch(AnswersOf(s), q)].processed

\* C4: answers of one session with distinct question_ids do not touch each
\* other: a completing run writes its fields into the entry of its own
\* question and leaves every entry of another question as it was, no
\* finished run's write is lost, and under fair scheduling the answer of
\* every submitted question ends processed (or the session is deleted).
C4_TwoAnswersIntact ==
    /\ [][C4_NoBleed]_vars
    /\ []C4_OwnFields
    /\ \A s \in SessionIds : \A q \in QIds :
          (Found(s) /\ FirstMatch(AnswersOf(s), q) # 0)
             ~> (~Found(s) \/ AnswerProcessed(s, q))

\* two answers with distinct questions, both processed by their own runs
C4_Witness ==
    \E s \in DOMAIN sessions :
       /\ Len(AnswersOf(s)) = 2
       /\ AnswersOf(s)[1].question_id # AnswersOf(s)[2].question_id
       /\ AnswersOf(s)[1].processed /\ AnswersOf(s)[2].processed
       /\ AnswersOf(s)[1].audio_path # NoPath
       /\ AnswersOf(s)[2].audio_path # NoPath
       /\ AnswersOf(s)[1].audio_path # AnswersOf(s)[2].audio_path

C6_CompletedImpliesProcessed ==
    \A s \in DOMAIN sessions :
       sessions[s].status = "completed"
          => \A i \in 1..Len(AnswersOf(s)) : AnswersOf(s)[i].processed

Finalizes(f) ==
    /\ f \in FinIds
    /\ fins[f].pc = "update"
    /\ fins'[f].pc = "done"
    /\ Found(fins[f].sid)

\* x is the mean of scores rounded to a hundredth (0 for no scores): no
\* hundredth is nearer to the mean
IsRoundedMean(x, scores) ==
    IF scores = <<>> THEN x = 0
    ELSE LET n == Len(scores)
             diff == x * n - SumSeq(scores)
         IN  2 * diff <= n /\ -2 * diff <= n

\* C8 (as claimed): right after finalize_session writes, final_score is the
\* rounded mean of the answer_final_score values stored at that moment.
C8_ScoreOfMoment ==
    [][\A f \in FinIds :
          Finalizes(f) =>
             LET now == ScoresOf(sessions'[fins[f].sid].answers)
             IN  IsRoundedMean(sessions'[fins[f].sid].final_score, now)]_vars

\* C8: right after finalize_session writes, final_score is the
\* rounded mean of the answer_final_score values that the call read with
\* its find_one (0 for none), whatever was stored in between.
C8_ScoreOfRead ==
    [][\A f \in FinIds :
          Finalizes(f) =>
             /\ sessions'[fins[f].sid].status = "completed"
             /\ IsRoundedMean(sessions'[fins[f].sid].final_score,
                               fins[f].read)]_vars

\* a finalization that averaged two answers, one of them scored
C8_Witness ==
    \E s \in DOMAIN sessions :
       /\ sessions[s].status = "completed"
       /\ Len(AnswersOf(s)) = 2
       /\ sessions[s].final_score > 0
       /\ sessions[s].final_score * 2 = SumSeq(ScoresOf(AnswersOf(s)))

SessionLevel(doc) ==
    <<doc.candidate_id, doc.final_score, doc.category, doc.status, doc.completed_at>>

\* C9: the write with which a process_video run completes, on success and
\* on failure, leaves final_score, category, status and completed_at of
\* every session as they were and changes at most the answer entry it
\* addresses.
C9_NoRecomputation ==
    [][\A r \in RunIds :
          Completes(r) =>
             /\ DOMAIN sessions' = DOMAIN sessions
             /\ \A s \in DOMAIN sessions :
                   /\ SessionLevel(sessions'[s]) = SessionLevel(sessions[s])
                   /\ Len(sessions'[s].answers) = Len(sessions[s].answers)
                   /\ \A i \in 1..Len(sessions[s].answers) :
                         sessions'[s].answers[i] # sessions[s].answers[i]
                            => /\ s = runs[r].sid
                               /\ i = FirstMatch(sessions[s].answers, runs[r].qid)]_vars

\* a finalized session one of whose answers was scored after finalize read
C9_Witness ==
    \E s \in DOMAIN sessions :
       /\ sessions[s].status = "completed"
       /\ sessions[s].completed_at # 0
       /\ sessions[s].final_score = 0
       /\ \E i \in 1..Len(AnswersOf(s)) :
             AnswersOf(s)[i].processed /\ AnswersOf(s)[i].answer_final_score > 0

\* C10: a step of finalize_session on a session that does not exist
\* changes no session document and creates none, and the task ends.
C10_FinalizeMissingNoOp ==
    [][\A f \in FinIds :
          (fins[f].pc # "done" /\ fins'[f] # fins[f] /\ ~Found(fins[f].sid))
             => /\ sessions' = sessions
                /\ fins'[f].pc = "done"]_vars

\* a finalize_session whose session was deleted between its find_one and
\* its update_one
C10_Witness ==
    \E f \in FinIds : fins[f].pc = "update" /\ ~Found(fins[f].sid)

\* C11: when finalize_session writes to a session that another call has
\* already completed, and the answers are the ones this call read, the
\* session gets the final_score and category a single call on these answers
\* gives and status completed; a score the earlier call took from the same
\* answers is written again unchanged, and so is its category.
C11_FinalizeIdempotent ==
    [][\A f \in FinIds :
          LET s == fins[f].sid
          IN  (/\ Finalizes(f)
               /\ Found(s)
               /\ sessions[s].status = "completed"
               /\ sessions[s].completed_at \notin {0, f}
               /\ fins[f].read = ScoresOf(AnswersOf(s)))
                 => /\ \E up \in BOOLEAN :
                          LET once == aggregate_session_score(
                                          ScoresOf(AnswersOf(s)), up)
                          IN  /\ sessions'[s].final_score = once.final_score
                              /\ sessions'[s].category = once.category
                    /\ sessions'[s].status = "completed"
                    /\ sessions'[s].answers = sessions[s].answers
                    /\ IsRoundedMean(sessions[s].final_score,
                                      ScoresOf(AnswersOf(s)))
                          => /\ sessions'[s].final_score = sessions[s].final_score
                             /\ sessions'[s].category = sessions[s].category]_vars

\* both calls ended, the second wrote last, over a scored answer
C11_Witness ==
    /\ Len(fins) = 2
    /\ fins[1].sid = fins[2].sid
    /\ fins[1].pc = "done" /\ fins[2].pc = "done"
    /\ Found(fins[1].sid)
    /\ sessions[fins[1].sid].completed_at = 2
    /\ sessions[fins[1].sid].final_score > 0
    /\ IsRoundedMean(sessions[fins[1].sid].final_score,
                     ScoresOf(AnswersOf(fins[1].sid)))

\* C12: upload_answer for a session that does not exist answers 404, and
\* for a session of another user 403; a step that ends in one of these
\* responses changes no session, schedules no run, takes no submission
\* into the pipeline and saves no file.
C12_RejectedUploadNoEffect ==
    [][/\ \A u \in Users, s \in SessionIds, q \in QIds :
             (/\ upload_answer_find(u, s, q)
              /\ (~Found(s) \/ sessions[s].candidate_id # u))
                => /\ resp' = Response("upload_answer",
                                       IF ~Found(s) THEN 404 ELSE 403)
                   /\ UNCHANGED <<sessions, uploads, runs, fins, files>>
       /\ (resp' # resp /\ resp' \in {Response("upload_answer", 404),
                                       Response("upload_answer", 403)})
             => UNCHANGED <<sessions, uploads, runs, fins, files>>]_vars

\* an upload to a session of another user has just been refused
C12_Witness ==
    /\ resp = Response("upload_answer", 403)
    /\ \E s \in DOMAIN sessions : sessions[s].candidate_id \in Candidates

\* C13: the step with which upload_answer answers 202 has appended one
\* stub, with processed = FALSE and every analysis field at its default, to
\* the session of the submission and has scheduled one process_video run
\* for it; a run that has ended takes no further step.
C13_AcceptedOneStubOneRun ==
    [][/\ \A up \in BagToSet(uploads) :
             upload_answer_update(up)
                => /\ Found(up.sid)
                   /\ sessions'[up.sid].answers
                         = Append(sessions[up.sid].answers,
                                  Answer(up.qid, up.video_path))
                   /\ Len(runs') = Len(runs) + 1
                   /\ runs'[Len(runs')].sid = up.sid
                   /\ runs'[Len(runs')].qid = up.qid
                   /\ runs'[Len(runs')].pc = "extract"
       /\ \A r \in RunIds : runs[r].pc = "done" => runs'[r] = runs[r]]_vars

\* a process_video run that has got past its first stage and has not ended
InProgress(r) == runs[r].pc \notin {"extract", "done"}

\* C14: the number of process_video runs in progress at the same time never
\* exceeds the pool size.
C14_PoolBound ==
    Cardinality({r \in RunIds : InProgress(r)}) <= PoolSize

\* the entry a write of run r addresses, read in the state after the step
AddressedAfter(r) ==
    sessions'[runs[r].sid].answers[
        FirstMatch(sessions[runs[r].sid].answers, runs[r].qid)]

Addresses(r) ==
    /\ Found(runs[r].sid)
    /\ FirstMatch(sessions[runs[r].sid].answers, runs[r].qid) # 0

\* the evaluation of an answer without speech
IsNoSpeech(x) ==
    /\ x.llm_evaluation # <<>>
    /\ x.llm_evaluation[1].overall_score = 0
    /\ x.llm_evaluation[1].clarity_score = 0
    /\ x.llm_evaluation[1].confidence_score = 0
    /\ x.llm_evaluation[1].logic_score = 0
    /\ x.llm_evaluation[1].relevance_score = 0
    /\ x.llm_evaluation[1].final_verdict = "Not Recommended"
    /\ x.llm_evaluation[1].weaknesses = <<"No spoken content detected">>

\* the neutral evaluation that stands in for a failed LLM call
IsFallback(x) ==
    /\ x.llm_evaluation # <<>>
    /\ x.llm_evaluation[1].overall_score = 5
    /\ x.llm_evaluation[1].clarity_score = 5
    /\ x.llm_evaluation[1].confidence_score = 5
    /\ x.llm_evaluation[1].logic_score = 5
    /\ x.llm_evaluation[1].relevance_score = 5
    /\ x.llm_evaluation[1].final_verdict = "Average"

\* the score of x is the one score_single_answer gives for its fields
IsScored(x) ==
    x.answer_final_score
       = score_single_answer(x.confidence_index, x.hesitation_score,
                             x.llm_evaluation)

\* C15: a run that comes to the evaluation stage with an empty transcript
\* makes no LLM call, gets overall_score 0, four sub-scores 0, the verdict
\* "Not Recommended" and the no-spoken-content weakness, and goes on to the
\* write of the success path; when that write is done the answer entry has
\* processed = TRUE and this evaluation.
C15_EmptyTranscriptSkipsLLM ==
    [][\A r \in RunIds :
          /\ (/\ runs[r].pc = "llm" /\ runs'[r].pc # "llm"
               /\ runs[r].update_fields.transcript.body = <<>>)
                => /\ runs'[r].pc = "persist"
                   /\ runs'[r].llm_call = "skipped"
                   /\ runs'[r].update_fields.processed
                   /\ IsNoSpeech(runs'[r].update_fields)
          /\ (/\ runs[r].pc = "persist" /\ runs'[r].pc = "done"
               /\ runs[r].update_fields.transcript.body = <<>>
               /\ Addresses(r))
                => /\ AddressedAfter(r).processed
                   /\ AddressedAfter(r).transcript = Text(<<>>)
                   /\ IsNoSpeech(AddressedAfter(r))]_vars

\* an answer stored with an empty transcript and the no-speech evaluation
C15_Witness ==
    \E s \in DOMAIN sessions : \E i \in 1..Len(AnswersOf(s)) :
       /\ AnswersOf(s)[i].processed
       /\ AnswersOf(s)[i].transcript = Text(<<>>)
       /\ IsNoSpeech(AnswersOf(s)[i])
       /\ AnswersOf(s)[i].answer_final_score > 0

\* C16: a run whose LLM call fails does not go to the except clause: it
\* gets overall_score 5, sub-scores 5 and the verdict "Average", computes
\* answer_final_score from them and goes on to the write of the success
\* path; when that write is done the answer entry has processed = TRUE,
\* this evaluation, the computed score and the transcript of the
\* transcription stage, not an error marker.
C16_LLMFailureFallsBack ==
    [][\A r \in RunIds :
          /\ (/\ runs[r].pc = "llm" /\ runs'[r].pc # "llm"
               /\ runs'[r].llm_call = "failed")
                => /\ runs'[r].pc = "persist"
                   /\ runs'[r].update_fields.processed
                   /\ IsFallback(runs'[r].update_fields)
                   /\ IsScored(runs'[r].update_fields)
                   /\ runs'[r].update_fields.transcript
                         = runs[r].update_fields.transcript
          /\ (/\ runs[r].pc = "persist" /\ runs'[r].pc = "done"
               /\ runs[r].llm_call = "failed"
               /\ Addresses(r))
                => /\ AddressedAfter(r).processed
                   /\ AddressedAfter(r).transcript.kind = "text"
                   /\ AddressedAfter(r).transcript
                         = runs[r].update_fields.transcript
                   /\ IsFallback(AddressedAfter(r))
                   /\ IsScored(AddressedAfter(r))]_vars

\* an answer stored with its spoken transcript and the fallback evaluation
C16_Witness ==
    \E s \in DOMAIN sessions : \E i \in 1..Len(AnswersOf(s)) :
       /\ AnswersOf(s)[i].processed
       /\ AnswersOf(s)[i].transcript.kind = "text"
       /\ AnswersOf(s)[i].transcript.body # <<>>
       /\ IsFallback(AnswersOf(s)[i])
       /\ AnswersOf(s)[i].answer_final_score = 610

\* a call of fn has returned
Returned(fn) == call.fn = fn /\ call.result # Pending

\* 0.40 * overall + 0.20 * confidence + 0.20 * comm + 0.20 * (10 - hesitation)
\* in thousandths, capped at 10.0 and rounded to hundredths
WeightedScore(overall, confidence, comm, hesitation) ==
    RoundHalfEven(Min(400 * overall + 2 * confidence + 200 * comm
                        + 2 * (1000 - hesitation), 10000), 10)

\* C17: for overall_score in 0..10, confidence_index and hesitation_score
\* in [0, 10] and a communication level High, Medium or Low,
\* score_single_answer returns the weighted sum with comm 10, 6 or 2, capped
\* at 10.0 and rounded to 2 decimals, and the result lies in [0, 10]; an
\* answer without LLM evaluation is scored with 0 for the LLM component
\* (and the level Low).
C17_ScoreFormula ==
    Returned("score_single_answer") =>
       LET a == call.args
           e == a.llm_evaluation
       IN  (/\ a.confidence_index \in 0..1000
            /\ a.hesitation_score \in 0..1000)
              => /\ (/\ e # <<>>
                      /\ e[1].overall_score \in 0..10
                      /\ e[1].communication_level \in {"High", "Medium", "Low"})
                        => call.result.value =
                              WeightedScore(
                                 e[1].overall_score, a.confidence_index,
                                 CASE e[1].communication_level = "High" -> 10
                                   [] e[1].communication_level = "Medium" -> 6
                                   [] e[1].communication_level = "Low" -> 2,
                                 a.hesitation_score)
                 /\ e = <<>>
                        => call.result.value =
                              WeightedScore(0, a.confidence_index, 2,
                                            a.hesitation_score)
                 /\ (e = <<>> \/ (/\ e[1].overall_score \in 0..10
                                    /\ e[1].communication_level
                                          \in {"High", "Medium", "Low"}))
                        => call.result.value \in 0..1000

\* a score whose third decimal was rounded up
C17_Witness ==
    /\ Returned("score_single_answer")
    /\ call.args.llm_evaluation # <<>>
    /\ call.args.llm_evaluation[1].overall_score = 7
    /\ call.args.llm_evaluation[1].communication_level = "Medium"
    /\ call.args.confidence_index = 333
    /\ call.args.hesitation_score = 150
    /\ call.result.value = 637

\* the call score_single_answer makes on the arguments of the latest call
\* with the LLM score, the confidence index and the hesitation replaced
ScoreAt(overall, confidence, hesitation) ==
    score_single_answer(
       confidence, hesitation,
       IF call.args.llm_evaluation = <<>> THEN <<>>
       ELSE << [call.args.llm_evaluation[1] EXCEPT !.overall_score = overall] >>)

\* C18: score_single_answer does not decrease when the LLM overall score
\* grows, when the confidence index grows, or when 10 - hesitation_score
\* grows, the other inputs staying as they are, and never returns more
\* than 10.0.
C18_ScoreMonotonic ==
    Returned("score_single_answer") =>
       LET a == call.args
           o == IF a.llm_evaluation = <<>> THEN 0
                ELSE a.llm_evaluation[1].overall_score
       IN  /\ call.result.value <= 1000
           /\ \A o2 \in OverallScores :
                 o2 >= o => ScoreAt(o2, a.confidence_index, a.hesitation_score)
                               >= call.result.value
           /\ \A c2 \in ConfidenceValues :
                 c2 >= a.confidence_index
                    => ScoreAt(o, c2, a.hesitation_score) >= call.result.value
           /\ \A h2 \in HesitationValues :
                 1000 - h2 >= 1000 - a.hesitation_score
                    => ScoreAt(o, a.confidence_index, h2) >= call.result.value

\* a score held at 10.0 by the cap
C18_Witness ==
    /\ Returned("score_single_answer")
    /\ call.args.llm_evaluation # <<>>
    /\ call.args.llm_evaluation[1].overall_score = 12
    /\ call.args.llm_evaluation[1].communication_level = "High"
    /\ call.args.confidence_index = 1000
    /\ call.args.hesitation_score = 0
    /\ call.result.value = 1000

\* C19: for a non-empty list aggregate_session_score returns the mean of
\* the scores rounded to 2 decimals, with the category Highly Recommended
\* from 8.0 on, Recommended from 6.0 on, Average from 4.0 on (the rounded
\* mean compared, each bound included) and Not Recommended below; for the
\* empty list it returns 0.0 and Not Recommended.
C19_AggregateMeanAndBand ==
    Returned("aggregate_session_score") =>
       LET scores == call.args.scores
           mean == call.result.final_score
       IN  /\ scores = <<>>
                => call.result = [final_score |-> 0,
                                  category |-> "Not Recommended"]
           /\ IsRoundedMean(mean, scores)
           /\ scores # <<>>
                => call.result.category =
                      CASE mean >= 800 -> "Highly Recommended"
                        [] mean < 800 /\ mean >= 600 -> "Recommended"
                        [] mean < 600 /\ mean >= 400 -> "Average"
                        [] mean < 400 -> "Not Recommended"

\* the scores 7 and 5: the mean 6.0 is Recommended
C19_Witness ==
    /\ Returned("aggregate_session_score")
    /\ call.args.scores = <<700, 500>>
    /\ call.result = [final_score |-> 600, category |-> "Recommended"]

\* the positions i of words whose start lies more than the threshold after
\* the end of the word before, in order
StrictGaps(words) ==
    SelectSeq([k \in 1..(Len(words) - 1) |-> k + 1],
              LAMBDA i : words[i].start - words[i - 1].end > LONG_PAUSE_THRESHOLD)

\* C20: pause detection records exactly the gaps strictly greater than 2.0
\* seconds, in their order, and hesitation_score = min(K * 1.5, 10.0) for
\* the K of them; a gap of exactly 2.0 seconds is no pause, and no word or
\* one word gives no pause and the score 0.
C20_PausesAreStrictGaps ==
    Returned("_transcribe_sync") =>
       LET words == call.args.words
           strict == StrictGaps(words)
           pauses == call.result.pauses
       IN  /\ Len(pauses) = Len(strict)
           /\ \A k \in 1..Len(strict) :
                 /\ pauses[k].before_word = strict[k]
                 /\ pauses[k].after_word = strict[k] - 1
           /\ call.result.hesitation_score = Min(Len(strict) * 150, 1000)
           /\ Len(words) <= 1
                 => pauses = <<>> /\ call.result.hesitation_score = 0

\* the frames of the latest call that produced scores
ProducedScores ==
    LET a == call.args
    IN  IF ~a.opened \/ a.frames = <<>> \/ LoopRaises(a.fps, a.frames)
        THEN <<>>
        ELSE SampledFrames(a.frames, 0,
                           (IF a.fps = 0 THEN 2500 ELSE a.fps) \div 100)

\* C21: whenever the frame loop ends with at least one frame that produced
\* scores, the call returns a distribution whose percentages sum to 100
\* within the rounding of its entries (half a hundredth each) and a
\* confidence_index and nervousness_score in [0, 10]; when the loop ends
\* with no frame that produced scores, the distribution is empty and both
\* indices are 0.
C21_DistributionSumsTo100 ==
    (/\ Returned("_analyze_frames_sync")
     /\ call.args.opened
     /\ ~LoopRaises(call.args.fps, call.args.frames))
       => LET r == call.result
          IN  /\ "raised" \notin DOMAIN r
              /\ ProducedScores # <<>>
                    => LET d == r.emotion_distribution
                           total == SumValues(d, DOMAIN d)
                       IN  /\ 2 * (total - 10000) <= Cardinality(DOMAIN d)
                           /\ 2 * (10000 - total) <= Cardinality(DOMAIN d)
                           /\ r.confidence_index \in 0..1000
                           /\ r.nervousness_score \in 0..1000
              /\ ProducedScores = <<>>
                    => /\ DOMAIN r.emotion_distribution = {}
                       /\ r.confidence_index = 0
                       /\ r.nervousness_score = 0

\* C29: a call of the emotion analysis raises only when the video stream
\* cannot be opened: on a stream that opens it returns a result whatever
\* the declared frame rate, the number of frames and the per-frame
\* detection results.
C29_RaisesOnlyWhenUnopenable ==
    Returned("_analyze_frames_sync")
       => ("raised" \in DOMAIN call.result => ~call.args.opened)

\* the LLM overall score score_single_answer uses for the latest call
OverallOf(llm_evaluation) ==
    IF llm_evaluation = <<>> THEN 0 ELSE llm_evaluation[1].overall_score

\* C28: the communication score that enters score_single_answer is 10 for
\* High, 6 for Medium, 2 for Low, and 5 whenever the level is absent or not
\* one of those three, an answer without LLM evaluation included.
C28_CommDefaultFive ==
    (/\ Returned("score_single_answer")
     /\ call.args.hesitation_score <= 1000)
       => LET a == call.args
              e == a.llm_evaluation
              comm == IF e = <<>> THEN 5
                      ELSE CASE e[1].communication_level = "High" -> 10
                             [] e[1].communication_level = "Medium" -> 6
                             [] e[1].communication_level = "Low" -> 2
                             [] OTHER -> 5
          IN  call.result.value =
                 WeightedScore(OverallOf(e), a.confidence_index, comm,
                               a.hesitation_score)

\* C28, as the code has it: the communication score is 10 for High, 6 for
\* Medium, 2 for Low and 5 for every other level of an LLM evaluation; an
\* answer without LLM evaluation is scored as Low, with 2.
C28_CommLowWithoutEvaluation ==
    (/\ Returned("score_single_answer")
     /\ call.args.hesitation_score <= 1000)
       => LET a == call.args
              e == a.llm_evaluation
              comm == IF e = <<>> THEN 2
                      ELSE CASE e[1].communication_level = "High" -> 10
                             [] e[1].communication_level = "Medium" -> 6
                             [] e[1].communication_level = "Low" -> 2
                             [] OTHER -> 5
          IN  call.result.value =
                 WeightedScore(OverallOf(e), a.confidence_index, comm,
                               a.hesitation_score)

\* an evaluation whose level is none of the three, scored with 5:
\* 0.4 * 5 + 0.2 * 2.5 + 0.2 * 5 + 0.2 * (10 - 3) = 4.9
C28_Witness ==
    /\ Returned("score_single_answer")
    /\ call.args.llm_evaluation # <<>>
    /\ call.args.llm_evaluation[1].communication_level = "Fluent"
    /\ call.args.llm_evaluation[1].overall_score = 5
    /\ call.args.confidence_index = 250
    /\ call.args.hesitation_score = 300
    /\ call.result.value = 490

C23_OnlyOwnEntryWritten ==
    [][\A r \in RunIds :
          Completes(r) =>
             /\ DOMAIN sessions' = DOMAIN sessions
             /\ \A s \in DOMAIN sessions :
                   /\ sessions'[s].status = sessions[s].status
                   /\ sessions'[s].final_score = sessions[s].final_score
                   /\ sessions'[s].category = sessions[s].category
                   /\ Len(sessions'[s].answers) = Len(sessions[s].answers)
                   /\ \A i \in 1..Len(sessions[s].answers) :
                         sessions'[s].answers[i] # sessions[s].answers[i]
                            => s = runs[r].sid /\ i = runs[r].entry]_vars

\* C24: the write of a failed run puts the "[ERROR: ...]" marker into the
\* transcript of an answer only when no transcript is stored on it: no step
\* replaces a stored transcript text by a marker.
C24_StoredTranscriptKept ==
    [][\A s \in DOMAIN sessions \cap DOMAIN sessions' :
          \A i \in 1..Len(sessions[s].answers) :
             (/\ i <= Len(sessions'[s].answers)
              /\ sessions[s].answers[i].transcript.kind = "text")
                => sessions'[s].answers[i].transcript.kind # "error"]_vars

\* every field of the success write is on the entry
SuccessShape(e) ==
    /\ e.transcript.kind = "text"
    /\ e.audio_path = AudioPath(e.video_path)
    /\ e.hesitation_score = HesitationScore(e.pause_count)
    /\ \E o \in EmotionOutcomes :
          /\ e.confidence_index = o.confidence_index
          /\ e.nervousness_score = o.nervousness_score
    /\ e.llm_evaluation # <<>>
    /\ e.answer_final_score = score_single_answer(e.confidence_index,
                                                  e.hesitation_score,
                                                  e.llm_evaluation)

\* the transcript carries the "[ERROR: ...]" marker
FailureShape(e) == e.transcript.kind = "error"

\* C25: an answer entry with processed = TRUE either has every field of the
\* success write (transcript, hesitation and emotion fields, llm_evaluation,
\* answer_final_score) or carries the error marker in transcript, never
\* both and never neither; an entry with processed = FALSE has no computed
\* score and no evaluation.
C25_ProcessedShapes ==
    \A s \in DOMAIN sessions : \A i \in 1..Len(AnswersOf(s)) :
       LET e == AnswersOf(s)[i]
       IN  /\ e.processed => (SuccessShape(e) \/ FailureShape(e))
           /\ ~(SuccessShape(e) /\ FailureShape(e))
           /\ ~e.processed => /\ e.answer_final_score = 0
                              /\ e.llm_evaluation = <<>>
                              /\ e.transcript = NoTranscript

\* one session with an answer of each shape
C25_Witness ==
    \E s \in DOMAIN sessions :
       /\ Len(AnswersOf(s)) = 2
       /\ AnswersOf(s)[1].processed /\ SuccessShape(AnswersOf(s)[1])
       /\ AnswersOf(s)[2].processed /\ FailureShape(AnswersOf(s)[2])
       /\ AnswersOf(s)[2].answer_final_score = 0

\* where control of a run can go next from pc
NextStages(pc) ==
    CASE pc = "extract" -> {"transcribe", "except"}
      [] pc = "transcribe" -> {"emotion", "except"}
      [] pc = "emotion" -> {"llm", "except"}
      [] pc = "llm" -> {"persist", "except"}
      [] pc = "persist" -> {"done", "except"}
      [] pc = "except" -> {"done"}
      [] pc = "done" -> {}

\* the update_fields keys that the stages before pc have filled in
FieldsBefore(pc) ==
    CASE pc = "extract" -> {}
      [] pc = "transcribe" -> {"audio_path"}
      [] pc = "emotion" -> {"audio_path", "transcript", "pause_count",
                            "hesitation_score"}
      [] pc = "llm" -> {"audio_path", "transcript", "pause_count",
                        "hesitation_score", "confidence_index",
                        "nervousness_score"}
      [] pc = "persist" -> {"audio_path", "transcript", "pause_count",
                            "hesitation_score", "confidence_index",
                            "nervousness_score", "llm_evaluation",
                            "answer_final_score", "processed"}
      [] OTHER -> {}

\* C26: a process_video run starts at audio extraction and every step of it
\* passes control from a stage to the next one in the order extraction,
\* transcription, emotion analysis, LLM evaluation with scoring,
\* persistence, or to the except clause; a stage is entered only with the
\* results of all stages before it in hand and no failure recorded, and no
\* step leaves a run at the stage it was at, so no stage is invoked twice.
C26_StagesInOrder ==
    [][/\ \A r \in RunIds' \ RunIds : runs'[r].pc = "extract"
       /\ \A r \in RunIds :
             runs'[r] # runs[r] =>
                /\ runs'[r].pc \in NextStages(runs[r].pc)
                /\ runs'[r].pc \notin {"except", "done"}
                      => /\ runs'[r].failed_at = ""
                         /\ DOMAIN runs'[r].update_fields
                               = FieldsBefore(runs'[r].pc)]_vars

\* a run that has come to persistence with the results of every stage
C26_Witness ==
    \E r \in RunIds :
       /\ runs[r].pc = "persist"
       /\ runs[r].update_fields.audio_path = AudioPath(runs[r].video_path)
       /\ runs[r].update_fields.transcript.kind = "text"
       /\ runs[r].update_fields.llm_evaluation # <<>>
       /\ runs[r].update_fields.answer_final_score > 0

\* C27: a run whose audio extraction failed invokes no later stage: it
\* holds no stage result and no LLM call, its only further step is the
\* failure write, and that write leaves the answer it addresses with
\* processed = TRUE and the error marker.
C27_ExtractionFailureAborts ==
    [][\A r \in RunIds :
          /\ (runs[r].pc = "extract" /\ runs'[r].failed_at = "extract")
                => runs'[r].pc = "except"
          /\ runs[r].failed_at = "extract"
                => /\ runs[r].pc = "except"
                   /\ runs[r].update_fields = <<>>
                   /\ runs[r].llm_call = ""
                   /\ runs'[r].pc \in {"except", "done"}
                   /\ (/\ runs'[r].pc = "done"
                       /\ Found(runs[r].sid)
                       /\ FirstMatch(AnswersOf(runs[r].sid), runs[r].qid) # 0)
                         => LET e == sessions'[runs[r].sid].answers[
                                        FirstMatch(AnswersOf(runs[r].sid),
                                                   runs[r].qid)]
                            IN  /\ e.processed
                                /\ FailureShape(e)
                                /\ e.transcript.body = <<"ffmpeg">>]_vars

\* a run that failed at extraction has ended: its answer is processed,
\* carries the ffmpeg marker and nothing of a later stage
C27_Witness ==
    \E r \in RunIds :
       /\ runs[r].pc = "done"
       /\ AnswerProcessed(runs[r].sid, runs[r].qid)
       /\ LET e == AnswersOf(runs[r].sid)[FirstMatch(AnswersOf(runs[r].sid), runs[r].qid)]
          IN  /\ e.transcript.kind = "error"
              /\ e.transcript.body = <<"ffmpeg">>
              /\ e.audio_path = NoPath
              /\ e.llm_evaluation = <<>>
              /\ e.answer_final_score = 0

\* C30: a stage call that never returns does not hold its run forever:
\* every run that was started ends, and the answer it addresses (if its
\* session is still there) is then processed.
C30_HungStageTimesOut ==
    \A r \in 1..PairUploads :
       (r \in RunIds)
          ~> (/\ r \in RunIds
              /\ runs[r].pc = "done"
              /\ ~Found(runs[r].sid) \/ AnswerProcessed(runs[r].sid, runs[r].qid))

\* C31: once the status poll reports processed = TRUE for (session_id,
\* question_id), no step makes it report processed = FALSE while the
\* session exists, whatever uploads, runs and finalizations follow.
C31_ProcessedReportStable ==
    [][\A s \in SessionIds : \A q \in QIds :
          (/\ processing_status(s, q).code = 200
           /\ processing_status(s, q).processed
           /\ s \in DOMAIN sessions')
             => /\ processing_status(s, q)'.code = 200
                /\ processing_status(s, q)'.processed]_vars

\* the poll reports processed for a question that has two entries, the
\* second of them still pending
C31_Witness ==
    \E s \in DOMAIN sessions : \E q \in QIds :
       /\ processing_status(s, q).processed
       /\ Len(AnswersOf(s)) = 2
       /\ AnswersOf(s)[1].question_id = q
       /\ AnswersOf(s)[2].question_id = q
       /\ ~AnswersOf(s)[2].processed

\* what tells one answer entry from another: the question and the video
EntryKey(e) == <<e.question_id, e.video_path>>

\* C32: the answer list of a session that exists before and after a step
\* keeps its entries in their places and grows by at most one entry at its
\* end; the entries stand in the order in which the submissions' updates
\* were applied (the order of the runs they scheduled); and a session leaves
\* the collection only by a successful delete_session.
C32_AnswersAppendOnly ==
    /\ [][/\ \A s \in DOMAIN sessions \cap DOMAIN sessions' :
                /\ Len(sessions'[s].answers)
                      \in {Len(sessions[s].answers), Len(sessions[s].answers) + 1}
                /\ \A i \in 1..Len(sessions[s].answers) :
                      EntryKey(sessions'[s].answers[i])
                         = EntryKey(sessions[s].answers[i])
          /\ DOMAIN sessions \ DOMAIN sessions' # {}
                => resp' = Response("delete_session", 200)]_vars
    /\ [](\A r1, r2 \in RunIds :
             (/\ runs[r1].sid = runs[r2].sid
              /\ Found(runs[r1].sid)
              /\ runs[r1].entry # 0 /\ runs[r2].entry # 0)
                => /\ runs[r1].entry <= Len(AnswersOf(runs[r1].sid))
                   /\ AnswersOf(runs[r1].sid)[runs[r1].entry].question_id
                         = runs[r1].qid
                   /\ r1 < r2 => runs[r1].entry < runs[r2].entry)

\* two answers of different questions in the order of their runs, after
\* the run of the later one has written
C32_Witness ==
    \E s \in DOMAIN sessions :
       /\ Len(AnswersOf(s)) = 2
       /\ Len(runs) = 2
       /\ AnswersOf(s)[1].question_id = runs[1].qid
       /\ AnswersOf(s)[2].question_id = runs[2].qid
       /\ runs[1].qid # runs[2].qid
       /\ AnswersOf(s)[2].processed
       /\ sessions[s].status = "completed"

\* C33: after a successful delete_session(s) the session document and its
\* answers are gone and so are the video and audio files stored for its
\* answers.
C33_DeleteCascades ==
    [][\A s \in DOMAIN sessions :
          (resp' = Response("delete_session", 200) /\ s \notin DOMAIN sessions')
             => \A f \in files' : f.dir # s]_vars

\* C34: the stub and the status of an accepted upload are written by one
\* update: a session with status in_progress holds no answer in any
\* reachable state, and every step that lengthens an answer list leaves the
\* session's status at processing.
C34_StubAndStatusTogether ==
    /\ [](\A s \in DOMAIN sessions :
             sessions[s].status = "in_progress" => AnswersOf(s) = <<>>)
    /\ [][\A s \in DOMAIN sessions \cap DOMAIN sessions' :
             Len(sessions'[s].answers) > Len(sessions[s].answers)
                => sessions'[s].status = "processing"]_vars

\* the update of the first upload has just been applied: one pending stub,
\* status processing, the run not started
C34_Witness ==
    \E s \in DOMAIN sessions : \E r \in RunIds :
       /\ sessions[s].status = "processing"
       /\ Len(AnswersOf(s)) = 1
       /\ ~AnswersOf(s)[1].processed
       /\ runs[r].sid = s /\ runs[r].entry = 1 /\ runs[r].pc = "extract"

\* C35: the final write of a run whose session has been deleted, on the
\* success and on the failure path, matches no document: the collection is
\* left exactly as it was (the session is not recreated, no other session
\* is changed), and on the failure path and on a write the database
\* accepts the run ends there.
C35_WriteAfterDeleteNoOp ==
    [][\A r \in RunIds :
          (/\ runs[r].pc \in {"persist", "except"}
           /\ runs'[r] # runs[r]
           /\ ~Found(runs[r].sid))
             => /\ sessions' = sessions
                /\ runs'[r].pc = "done" \/ (/\ runs[r].pc = "persist"
                                            /\ runs'[r].pc = "except"
                                            /\ runs'[r].exc = MongoError)]_vars

\* a run has ended after its session was deleted, next to a session that
\* is still there
C35_Witness ==
    \E r \in RunIds : \E s \in DOMAIN sessions :
       /\ runs[r].pc = "done"
       /\ runs[r].entry # 0
       /\ ~Found(runs[r].sid)
       /\ s # runs[r].sid

\* C36: an answer that a failed run has marked keeps the values of its
\* stub: answer_final_score 0.0, no llm_evaluation, confidence_index and
\* hesitation_score 0, so that finalize_session counts it with 0.0.
C36_FailedAnswerScoresZero ==
    \A s \in DOMAIN sessions : \A i \in 1..Len(AnswersOf(s)) :
       LET e == AnswersOf(s)[i]
       IN  (e.processed /\ FailureShape(e))
              => /\ e.answer_final_score = 0
                 /\ e.llm_evaluation = <<>>
                 /\ e.confidence_index = 0
                 /\ e.hesitation_score = 0

====
